---- MODULE Spec2Model ----
(***************************************************************************)
(* bitcoinjs-lib-wrapper (src/src/index.js): wallet creation, HD           *)
(* derivation, address validation and the two spend operations, as a state *)
(* machine over call frames.  The wrapped library calls (bitcoinjs-lib     *)
(* v3, package.json line 46) are modelled at the call sites of index.js:   *)
(* hashes and point multiplication are free constructors, encodings carry  *)
(* their version, prefix, payload length and checksum explicitly.          *)
(***************************************************************************)
EXTENDS Integers, Sequences, FiniteSets, TLC

VARIABLES
    calls,    \* the call frames: for each call, where it is and what it holds
    entropy,  \* the state of the random source ECPair.makeRandom reads
    memo      \* an earlier createHierarchicalDeterministic call and its result

vars == <<calls, entropy, memo>>

(***************************************************************************)
(* Bounds of the model.                                                    *)
(***************************************************************************)
\* ECPair.makeRandom draws one of the private keys 1..MaxKey.
MaxKey == 2

(***************************************************************************)
(* JavaScript values.  A number is kept as two 16-bit limbs, value =       *)
(* hi * 2^16 + lo, so that 2^31 and 2^32 keep their true place.            *)
(***************************************************************************)
Num(hi, lo) == [t |-> "number", hi |-> hi, lo |-> lo]

Str(hi, lo) == [t |-> "string", hi |-> hi, lo |-> lo]

Undef == [t |-> "undefined", hi |-> 0, lo |-> 0]

\* A default parameter value applies exactly when the argument is undefined.
Default(v, d) == IF v.t = "undefined" THEN d ELSE v

\* typeforce UInt31 / UInt32 of a number given by its limbs.
UInt31(hi) == hi >= 0 /\ hi <= 32767

UInt32(hi) == hi >= 0 /\ hi <= 65535

(***************************************************************************)
(* Network parameters.                                                     *)
(***************************************************************************)
NetBitcoin ==
    [name |-> "bitcoin", bech32 |-> "bc", pubKeyHash |-> 0, scriptHash |-> 5, wif |-> 128]

NetTestnet ==
    [name |-> "testnet", bech32 |-> "tb", pubKeyHash |-> 111, scriptHash |-> 196, wif |-> 239]

getSelectedNetworkRegtestAsTestnet(networkInput) ==
    IF networkInput \in {"testnet", "regtest"} THEN NetTestnet ELSE NetBitcoin

getSelectedNetwork(networkInput) ==
    IF networkInput = "testnet" THEN NetTestnet ELSE NetBitcoin

(***************************************************************************)
(* Keys, hashes, scripts.                                                  *)
(***************************************************************************)
\* A private scalar: drawn at random (n), or derived from a seed along a path.
RandKey(n) == [src |-> "rand", n |-> n, seed |-> <<>>, path |-> <<>>]

NoKey == [src |-> "none", n |-> 0, seed |-> <<>>, path |-> <<>>]

NoNet == [name |-> "none", bech32 |-> "", pubKeyHash |-> -1, scriptHash |-> -1, wif |-> -1]

ECPair(d, network) == [d |-> d, compressed |-> TRUE, network |-> network]

NoPair == ECPair(NoKey, NoNet)

\* The public point of a key pair, serialized.
getPublicKeyBuffer(keyPair) == [Q |-> keyPair.d, compressed |-> keyPair.compressed]

\* RIPEMD160(SHA256(x)): a collision-free digest of what x is.
hash160(x) == [h160 |-> x]

NoHash == [h160 |-> [none |-> TRUE]]

OP_0 == 0
OP_DUP == 118
OP_EQUAL == 135
OP_EQUALVERIFY == 136
OP_HASH160 == 169
OP_CHECKSIG == 172

\* A compiled script: the bytes before the pushed data, the data, the bytes after.
Script(pre, data, post) == [pre |-> pre, data |-> data, post |-> post]

NoScript == Script(<<>>, NoHash, <<>>)

pubKeyHash_output_encode(h) ==
    Script(<<OP_DUP, OP_HASH160, 20>>, h, <<OP_EQUALVERIFY, OP_CHECKSIG>>)

scriptHash_output_encode(h) == Script(<<OP_HASH160, 20>>, h, <<OP_EQUAL>>)

witnessPubKeyHash_output_encode(h) == Script(<<OP_0, 20>>, h, <<>>)

witnessScriptHash_output_encode(h) == Script(<<OP_0, 32>>, h, <<>>)

pubKeyHash_output_check(s) ==
    s.pre = <<OP_DUP, OP_HASH160, 20>> /\ s.post = <<OP_EQUALVERIFY, OP_CHECKSIG>>

scriptHash_output_check(s) == s.pre = <<OP_HASH160, 20>> /\ s.post = <<OP_EQUAL>>

witnessPubKeyHash_output_check(s) == s.pre = <<OP_0, 20>> /\ s.post = <<>>

witnessScriptHash_output_check(s) == s.pre = <<OP_0, 32>> /\ s.post = <<>>

classifyOutput(s) ==
    IF witnessPubKeyHash_output_check(s) THEN "witnesspubkeyhash"
    ELSE IF witnessScriptHash_output_check(s) THEN "witnessscripthash"
    ELSE IF pubKeyHash_output_check(s) THEN "pubkeyhash"
    ELSE IF scriptHash_output_check(s) THEN "scripthash"
    ELSE "nonstandard"

\* Buffer.toString("hex"): two hexadecimal digits for every byte.
RECURSIVE HexDigits(_)
HexDigits(bytes) ==
    IF bytes = <<>> THEN <<>>
    ELSE <<Head(bytes) \div 16, Head(bytes) % 16>> \o HexDigits(Tail(bytes))

toStringHex(s) == [hexpre |-> HexDigits(s.pre), hexdata |-> s.data, hexpost |-> HexDigits(s.post)]

NoHex == [hexpre |-> <<>>, hexdata |-> NoHash, hexpost |-> <<>>]

(***************************************************************************)
(* Addresses: Base58Check and Bech32 strings.                              *)
(***************************************************************************)
\* fmt: the alphabet and layout; ver: the version byte (Base58Check) or the
\* witness version (Bech32); hrp: the Bech32 prefix; len: the length of the
\* data in bytes; chk: whether the checksum matches.
Addr(fmt, ver, hrp, data, len, chk) ==
    [fmt |-> fmt, ver |-> ver, hrp |-> hrp, data |-> data, len |-> len, chk |-> chk]

NoAddr == Addr("none", -1, "", NoHash, 0, FALSE)

toBase58Check(hash, version) == Addr("base58", version, "", hash, 20, TRUE)

toBech32(data, len, version, prefix) == Addr("bech32", version, prefix, data, len, TRUE)

fromBase58Check_throws(a) == a.fmt # "base58" \/ ~a.chk \/ a.len + 1 # 21

fromBech32_throws(a) == a.fmt # "bech32" \/ ~a.chk

\* address.toOutputScript(address, network): the script an address pays to.
\* A Base58Check string that decodes is never retried as Bech32.
toOutputScript_throws(a, network) ==
    IF ~fromBase58Check_throws(a)
    THEN a.ver # network.pubKeyHash /\ a.ver # network.scriptHash
    ELSE IF ~fromBech32_throws(a)
         THEN \/ a.hrp # network.bech32
              \/ a.ver # 0
              \/ a.len \notin {20, 32}
         ELSE TRUE

toOutputScript(a, network) ==
    IF ~fromBase58Check_throws(a)
    THEN IF a.ver = network.pubKeyHash THEN pubKeyHash_output_encode(a.data)
         ELSE IF a.ver = network.scriptHash THEN scriptHash_output_encode(a.data)
         ELSE NoScript
    ELSE IF ~fromBech32_throws(a) /\ a.hrp = network.bech32 /\ a.ver = 0
         THEN IF a.len = 20 THEN witnessPubKeyHash_output_encode(a.data)
              ELSE IF a.len = 32 THEN witnessScriptHash_output_encode(a.data)
              ELSE NoScript
         ELSE NoScript

fromOutputScript_throws(s, network) == classifyOutput(s) = "nonstandard"

\* address.fromOutputScript(script, network): the address of a standard script.
fromOutputScript(s, network) ==
    IF pubKeyHash_output_check(s) THEN toBase58Check(s.data, network.pubKeyHash)
    ELSE IF scriptHash_output_check(s) THEN toBase58Check(s.data, network.scriptHash)
    ELSE IF witnessPubKeyHash_output_check(s) THEN toBech32(s.data, 20, 0, network.bech32)
    ELSE IF witnessScriptHash_output_check(s) THEN toBech32(s.data, 32, 0, network.bech32)
    ELSE NoAddr

(***************************************************************************)
(* WIF strings and ECPair.                                                 *)
(***************************************************************************)
Wif(version, d, chk) == [version |-> version, d |-> d, compressed |-> TRUE, chk |-> chk]

NoWif == Wif(-1, NoKey, FALSE)

\* A scalar the ECPair constructor accepts: greater than 0 (and below the
\* curve order, which every scalar of the model is).
ValidScalar(d) == d.src = "hd" \/ (d.src = "rand" /\ d.n >= 1)

fromWIF_throwsAnyVersion(w, network) ==
    \/ ~w.chk
    \/ ~ValidScalar(w.d)

\* ECPair.fromWIF(string, network) with a single network.
fromWIF_throws(w, network) ==
    \/ ~w.chk
    \/ w.version # network.wif
    \/ ~ValidScalar(w.d)

fromWIF_error(w, network) ==
    IF ~w.chk THEN "Invalid checksum"
    ELSE IF w.version # network.wif THEN "Invalid network version"
    ELSE "Private key must be greater than 0"

fromWIF(w, network) == [d |-> w.d, compressed |-> w.compressed, network |-> network]

toWIF(keyPair) ==
    [version |-> keyPair.network.wif, d |-> keyPair.d,
     compressed |-> keyPair.compressed, chk |-> TRUE]

getAddress(keyPair) ==
    toBase58Check(hash160(getPublicKeyBuffer(keyPair)), keyPair.network.pubKeyHash)

\* ECPair.makeRandom({network}): the scalar the random source gives next.
makeRandom(network) == ECPair(RandKey(entropy), network)

(***************************************************************************)
(* HDNode: seeds and derivation paths.                                     *)
(***************************************************************************)
\* Buffer.from(hex, "hex") of a string of hexadecimal digits: one byte for
\* every pair of digits.
RECURSIVE HexDecode(_)
HexDecode(digits) ==
    IF Len(digits) < 2 THEN <<>>
    ELSE <<Head(digits) * 16 + Head(Tail(digits))>> \o HexDecode(Tail(Tail(digits)))

\* HDNode.fromSeedBuffer: "Seed should be at least 128 bits" / "at most 512 bits".
fromSeedHex_throws(seed) == Len(HexDecode(seed)) < 16 \/ Len(HexDecode(seed)) > 64

fromSeedHexSalted(seed) ==
    [src |-> "hd", n |-> entropy, seed |-> HexDecode(seed), path |-> <<>>]

\* The master scalar of a seed (the left half of HMAC-SHA512("Bitcoin seed", seed)).
fromSeedHex(seed) == [src |-> "hd", n |-> 0, seed |-> HexDecode(seed), path |-> <<>>]

\* One segment of the path template: the text of a value, with or without
\* the hardening mark.  Numbers and numeric strings print alike.
Segment(v, hardened) == [neg |-> v.hi < 0, hi |-> v.hi, lo |-> v.lo, hardened |-> hardened]

\* types.BIP32Path: every segment is a run of decimal digits, so no sign.
BIP32Path(path) == \A i \in 1..Len(path) : ~path[i].neg

\* deriveHardened checks UInt31 and adds HIGHEST_BIT; derive checks UInt32.
SegmentAccepted(seg) == IF seg.hardened THEN UInt31(seg.hi) ELSE UInt32(seg.hi)

ChildIndex(seg) == IF seg.hardened THEN <<seg.hi + 32768, seg.lo>> ELSE <<seg.hi, seg.lo>>

derivePath_throws(path) ==
    ~BIP32Path(path) \/ \E i \in 1..Len(path) : ~SegmentAccepted(path[i])

derivePath(node, path) ==
    [node EXCEPT !.path = [i \in 1..Len(path) |-> ChildIndex(path[i])]]

(***************************************************************************)
(* TransactionBuilder.                                                     *)
(***************************************************************************)
\* types.Satoshi: a non-negative integer; its upper limit of 21 * 10^14 is
\* above every amount of the model.
Satoshi(v) == v >= 0

NoPub == getPublicKeyBuffer(NoPair)

\* A signature: who signed, by which signature-hash algorithm, over which
\* script code and which input value (-1: no value is committed).
Sig(by, algo, signScript, value) ==
    [by |-> by, algo |-> algo, signScript |-> signScript, value |-> value]

NoSig == Sig(NoPub, "none", NoScript, -1)

\* An input of the builder; value -1 stands for undefined.
TxIn(hash, index, prevOutScript, prevOutType) ==
    [hash |-> hash, index |-> index, prevOutScript |-> prevOutScript,
     prevOutType |-> prevOutType, value |-> -1, signature |-> NoSig]

TxOut(script, value) == [script |-> script, value |-> value]

TransactionBuilder(network) == [network |-> network, ins |-> <<>>, outs |-> <<>>]

NoTB == TransactionBuilder(NoNet)

RECURSIVE Reverse(_)
Reverse(bytes) == IF bytes = <<>> THEN <<>> ELSE Reverse(Tail(bytes)) \o <<Head(bytes)>>

\* The outpoint hash of a transaction id given in hexadecimal.
TxHash(txId) == Reverse(HexDecode(txId))

isCoinbaseHash(hash) == Len(hash) = 32 /\ \A i \in 1..32 : hash[i] = 0

\* addInput(txId, out [, sequence, prevOutScript]): coinbase and duplicate
\* inputs are refused, the hash must be 32 bytes and the index a UInt32
\* (every index of the model is below 2^32).
addInput_throws(tb, txId, vout) ==
    \/ isCoinbaseHash(TxHash(txId))
    \/ \E i \in 1..Len(tb.ins) : tb.ins[i].hash = TxHash(txId) /\ tb.ins[i].index = vout
    \/ Len(TxHash(txId)) # 32
    \/ vout < 0

addInput(tb, txId, vout, prevOutScript) ==
    [tb EXCEPT !.ins = Append(@,
        TxIn(TxHash(txId), vout, prevOutScript,
             IF prevOutScript = NoScript THEN "" ELSE classifyOutput(prevOutScript)))]

\* addOutput(address, value): a string is decoded with toOutputScript under
\* the builder's network; the value must be a Satoshi amount.
addOutput_throwsValueOnly(tb, address, value) == ~Satoshi(value)

addOutput_throws(tb, address, value) ==
    toOutputScript_throws(address, tb.network) \/ ~Satoshi(value)

addOutputInFront(tb, address, value) ==
    [tb EXCEPT !.outs = <<TxOut(toOutputScript(address, tb.network), value)>> \o @]

addOutput(tb, address, value) ==
    [tb EXCEPT !.outs = Append(@, TxOut(toOutputScript(address, tb.network), value))]

\* sign(vin, keyPair, redeemScript, hashType, witnessValue) of an input that
\* holds no signature yet; witnessValue -1 stands for undefined.
sign_error(tb, vin, keyPair, witnessValue) ==
    IF keyPair.network # tb.network THEN "Inconsistent network"
    ELSE IF vin + 1 > Len(tb.ins) THEN "No input at index"
    ELSE IF witnessValue # -1 /\ ~Satoshi(witnessValue) THEN "Expected Satoshi"
    ELSE LET input == tb.ins[vin + 1] IN
         IF input.prevOutType = ""
         THEN ""
         ELSE IF input.prevOutType = "witnesspubkeyhash"
         THEN IF input.prevOutScript.data # hash160(getPublicKeyBuffer(keyPair))
              THEN "witnesspubkeyhash not supported"
              ELSE IF witnessValue = -1 THEN "Expected Satoshi" ELSE ""
         ELSE IF input.prevOutType = "pubkeyhash"
         THEN IF input.prevOutScript.data # hash160(getPublicKeyBuffer(keyPair))
              THEN "pubkeyhash not supported" ELSE ""
         ELSE "PrevOutScript requires redeemScript"

sign_throws(tb, vin, keyPair, witnessValue) == sign_error(tb, vin, keyPair, witnessValue) # ""

\* With no previous output script the builder takes the input to be the
\* P2PKH output of the signing key; a P2WPKH input is signed with the
\* witness algorithm over the P2PKH script code of its program and the value.
sign(tb, vin, keyPair, witnessValue) ==
    LET input == tb.ins[vin + 1]
        pub == getPublicKeyBuffer(keyPair)
        p2pkh == pubKeyHash_output_encode(hash160(pub))
        signed ==
            IF input.prevOutType = "witnesspubkeyhash"
            THEN [input EXCEPT !.value = witnessValue,
                     !.signature = Sig(pub, "witnessV0",
                         pubKeyHash_output_encode(input.prevOutScript.data), witnessValue)]
            ELSE [input EXCEPT !.value = witnessValue,
                     !.prevOutScript = IF @ = NoScript THEN p2pkh ELSE @,
                     !.prevOutType = "pubkeyhash",
                     !.signature = Sig(pub, "legacy", p2pkh, -1)]
    IN  [tb EXCEPT !.ins[vin + 1] = signed]

\* Serialized length of a script: its bytes and the data they push.
ScriptLen(s) ==
    IF s.pre = <<>> THEN 0 ELSE Len(s.pre) + s.pre[Len(s.pre)] + Len(s.post)

RECURSIVE SumOutLen(_)
SumOutLen(outs) ==
    IF outs = <<>> THEN 0 ELSE 9 + ScriptLen(Head(outs).script) + SumOutLen(Tail(outs))

RECURSIVE SumOutValue(_)
SumOutValue(outs) == IF outs = <<>> THEN 0 ELSE Head(outs).value + SumOutValue(Tail(outs))

RECURSIVE SumInValue(_)
SumInValue(ins) ==
    IF ins = <<>> THEN 0
    ELSE (IF Head(ins).value = -1 THEN 0 ELSE Head(ins).value) + SumInValue(Tail(ins))

\* Transaction.virtualSize() of the built transaction, a signature with its
\* hash type taken as 72 bytes and a public key as 33.
virtualSize(tb) ==
    LET witness == \E i \in 1..Len(tb.ins) : tb.ins[i].signature.algo = "witnessV0"
        sigLen == 1 + 72 + 1 + 33
        inLen(i) == 32 + 4 + 1 + 4 + (IF tb.ins[i].signature.algo = "legacy" THEN sigLen ELSE 0)
        SumIn[i \in 0..Len(tb.ins)] == IF i = 0 THEN 0 ELSE inLen(i) + SumIn[i - 1]
        base == 4 + 1 + SumIn[Len(tb.ins)] + 1 + SumOutLen(tb.outs) + 4
        total == base + (IF witness THEN 2 + Len(tb.ins) * (1 + sigLen) ELSE 0)
    IN  (base * 3 + total + 3) \div 4

\* __overMaximumFees: the fee rate is above maximumFeeRate = 2500 per byte.
overMaximumFees(tb) ==
    SumInValue(tb.ins) - SumOutValue(tb.outs) > 2500 * virtualSize(tb)

build_error(tb) ==
    IF Len(tb.ins) = 0 THEN "Transaction has no inputs"
    ELSE IF Len(tb.outs) = 0 THEN "Transaction has no outputs"
    ELSE IF \E i \in 1..Len(tb.ins) : tb.ins[i].prevOutType = ""
         THEN "Transaction is not complete"
    ELSE IF \E i \in 1..Len(tb.ins) : tb.ins[i].signature = NoSig
         THEN "Not enough signatures provided"
    ELSE IF overMaximumFees(tb) THEN "Transaction has absurd fees"
    ELSE ""

build_throws(tb) == build_error(tb) # ""

\* The built transaction: a legacy input carries its signature in the
\* scriptSig, a witness input in the witness stack.
Tx(ins, outs) == [version |-> 1, locktime |-> 0, ins |-> ins, outs |-> outs]

NoTx == Tx(<<>>, <<>>)

build(tb) ==
    Tx([i \in 1..Len(tb.ins) |->
            [hash |-> tb.ins[i].hash, index |-> tb.ins[i].index,
             script |-> IF tb.ins[i].signature.algo = "legacy"
                        THEN tb.ins[i].signature ELSE NoSig,
             witness |-> IF tb.ins[i].signature.algo = "witnessV0"
                         THEN tb.ins[i].signature ELSE NoSig]],
       tb.outs)

\* Transaction.toHex(): the serialization, which keeps every field.
toHex(tx) == [hex |-> tx]

NoTxHex == toHex(NoTx)

(***************************************************************************)
(* Address computations of the wallet functions.                           *)
(***************************************************************************)
\* pubKey -> hash160 -> witnessPubKeyHash.output.encode
witnessPubKeyHashOf(keyPair) ==
    witnessPubKeyHash_output_encode(hash160(getPublicKeyBuffer(keyPair)))

p2wpkhOfMainnet(witnessPubKeyHash, network) == fromOutputScript(witnessPubKeyHash, NetBitcoin)

p2wpkhOf(witnessPubKeyHash, network) == fromOutputScript(witnessPubKeyHash, network)

\* witnessPubKeyHash.toString("hex"), hash160 of that string, scriptHash
\* output, address: the hash is taken over the hexadecimal text.
p2shp2wpkhOf(witnessPubKeyHash, network) ==
    LET witnessPubKeyHashHex == toStringHex(witnessPubKeyHash)
        witnessPubKeyHashHexHash == hash160(witnessPubKeyHashHex)
        scriptHash == scriptHash_output_encode(witnessPubKeyHashHexHash)
    IN  fromOutputScript(scriptHash, network)

(***************************************************************************)
(* Call frames.                                                            *)
(***************************************************************************)
NoArgs ==
    [txId |-> <<>>, out |-> 0, address |-> NoAddr, amount |-> 0, wif |-> NoWif,
     changeAddress |-> NoAddr, changeAmount |-> 0, balance |-> -1,
     networkInput |-> "undefined", seed |-> <<>>, purpose |-> Undef,
     account |-> Undef, receivingOrChange |-> Undef, index |-> Undef]

\* What a call returns: kind "ok" with the record's keys and fields, or
\* kind "error" with the message of what was thrown.
NoRet ==
    [kind |-> "none", err |-> "", keys |-> {}, p2pkh |-> NoAddr, p2wpkh |-> NoAddr,
     p2shp2wpkh |-> NoAddr, wif |-> NoWif, witnessPubKeyHashHex |-> NoHex,
     txHex |-> NoTxHex, bool |-> FALSE]

Throw(msg) == [NoRet EXCEPT !.kind = "error", !.err = msg]

\* A line written to the console by a call.
LogEntry(level, msg, args) == [level |-> level, msg |-> msg, args |-> args]

\* A call: op is the function whose body runs and args its arguments; alias
\* is the exported wrapper the caller called, if any, and given the
\* arguments the caller passed.
Idle ==
    [op |-> "idle", pc |-> "idle", alias |-> "", given |-> NoArgs,
     args |-> NoArgs, network |-> NoNet,
     keyPair |-> NoPair, witnessPubKeyHash |-> NoScript, tb |-> NoTB, tx |-> NoTx,
     trace |-> <<>>, logged |-> <<>>, ret |-> NoRet]

Calls == DOMAIN calls

IsIdle(c) == calls[c].pc = "idle"

\* A call that ended: its promise is resolved (ok) or rejected (error).
Finish(f, ret) == [f EXCEPT !.pc = "done", !.ret = ret]

Fail(f, msg) == Finish(f, Throw(msg))

(***************************************************************************)
(* Inputs.                                                                 *)
(***************************************************************************)
NetInputs == {"undefined", "bitcoin", "testnet", "regtest"}

KeyPairOf(n, network) == ECPair(RandKey(n), network)

\* Addresses a caller may pass: well-formed ones of both networks and of
\* each type, and strings that are not addresses.
AddrP2PKH(n, network) == getAddress(KeyPairOf(n, network))

AddrP2WPKH(n, network) == p2wpkhOf(witnessPubKeyHashOf(KeyPairOf(n, network)), network)

AddrP2SH(n, network) == p2shp2wpkhOf(witnessPubKeyHashOf(KeyPairOf(n, network)), network)

AddrBadChecksum == [AddrP2PKH(1, NetBitcoin) EXCEPT !.chk = FALSE]

AddrShort == [AddrP2PKH(1, NetBitcoin) EXCEPT !.len = 19]

AddrWitnessV1 == [AddrP2WPKH(1, NetBitcoin) EXCEPT !.ver = 1]

AddrP2WSH == toBech32(hash160(Script(<<81>>, NoHash, <<>>)), 32, 0, "tb")

AddrJunk == Addr("junk", 0, "", NoHash, 0, FALSE)

AddrInputs ==
    {AddrP2PKH(1, NetBitcoin), AddrP2PKH(1, NetTestnet),
     AddrP2WPKH(2, NetBitcoin), AddrP2WPKH(2, NetTestnet),
     AddrP2SH(1, NetBitcoin), AddrP2SH(2, NetTestnet),
     AddrBadChecksum, AddrShort, AddrWitnessV1, AddrP2WSH, AddrJunk}

WifOf(n, network) == toWIF(KeyPairOf(n, network))

WifBadChecksum == [WifOf(1, NetBitcoin) EXCEPT !.chk = FALSE]

WifZero == Wif(128, RandKey(0), TRUE)

WifInputs ==
    {WifOf(1, NetBitcoin), WifOf(2, NetBitcoin), WifOf(1, NetTestnet), WifOf(2, NetTestnet),
     WifBadChecksum, WifZero}

(***************************************************************************)
(* Wallet creation (index.js 40-214).  Each function ends in one step.     *)
(***************************************************************************)
Wallet(keys, p2pkh, p2wpkh, p2shp2wpkh, witnessPubKeyHashHex, wif) ==
    [NoRet EXCEPT !.kind = "ok", !.keys = keys, !.p2pkh = p2pkh, !.p2wpkh = p2wpkh,
        !.p2shp2wpkh = p2shp2wpkh, !.witnessPubKeyHashHex = witnessPubKeyHashHex,
        !.wif = wif]

Enter(op, args) ==
    [Idle EXCEPT !.op = op, !.args = args, !.given = args,
                 !.network = getSelectedNetwork(args.networkInput)]

\* Lines 41-46: the frame in which the call ends.
createPayToPublicKeyHashWallet_call(networkInput) ==
    LET network == getSelectedNetwork(networkInput)
        wif == toWIF(makeRandom(network))
        keyPair == fromWIF(wif, network)
        p2pkh == getAddress(keyPair)
        f == Enter("createPayToPublicKeyHashWallet",
                   [NoArgs EXCEPT !.networkInput = networkInput])
    IN  Finish([f EXCEPT !.keyPair = keyPair],
               Wallet({"p2pkh", "wif"}, p2pkh, NoAddr, NoAddr, NoHex, wif))

createPayToPublicKeyHashWallet(c) ==
    /\ IsIdle(c)
    /\ \E networkInput \in NetInputs :
         calls' = [calls EXCEPT ![c] = createPayToPublicKeyHashWallet_call(networkInput)]
    /\ entropy' \in 1..MaxKey
    /\ UNCHANGED memo

\* Lines 58-59: await createPayToPublicKeyHashWallet(networkInput).
createLegacyWallet(c) ==
    /\ IsIdle(c)
    /\ \E networkInput \in NetInputs :
         calls' = [calls EXCEPT ![c] =
             [createPayToPublicKeyHashWallet_call(networkInput) EXCEPT
                 !.alias = "createLegacyWallet"]]
    /\ entropy' \in 1..MaxKey
    /\ UNCHANGED memo

\* Lines 70-82.
createPayToWitnessPublicKeyHash_call(networkInput) ==
    LET network == getSelectedNetwork(networkInput)
        wif == toWIF(makeRandom(network))
        keyPair == fromWIF(wif, network)
        witnessPubKeyHash == witnessPubKeyHashOf(keyPair)
        p2wpkh == p2wpkhOf(witnessPubKeyHash, network)
        f == Enter("createPayToWitnessPublicKeyHash",
                   [NoArgs EXCEPT !.networkInput = networkInput])
    IN  Finish([f EXCEPT !.keyPair = keyPair, !.witnessPubKeyHash = witnessPubKeyHash],
               Wallet({"p2wpkh", "wif"}, NoAddr, p2wpkh, NoAddr, NoHex, wif))

createPayToWitnessPublicKeyHash(c) ==
    /\ IsIdle(c)
    /\ \E networkInput \in NetInputs :
         calls' = [calls EXCEPT ![c] = createPayToWitnessPublicKeyHash_call(networkInput)]
    /\ entropy' \in 1..MaxKey
    /\ UNCHANGED memo

\* Lines 93-94: await createPayToWitnessPublicKeyHash(networkInput).
createBech32Wallet(c) ==
    /\ IsIdle(c)
    /\ \E networkInput \in NetInputs :
         calls' = [calls EXCEPT ![c] =
             [createPayToWitnessPublicKeyHash_call(networkInput) EXCEPT
                 !.alias = "createBech32Wallet"]]
    /\ entropy' \in 1..MaxKey
    /\ UNCHANGED memo

\* Lines 107-124.
createPayToScriptHash_PayToWitnessPublicKeyHash_call(networkInput) ==
    LET network == getSelectedNetwork(networkInput)
        wif == toWIF(makeRandom(network))
        keyPair == fromWIF(wif, network)
        witnessPubKeyHash == witnessPubKeyHashOf(keyPair)
        witnessPubKeyHashHex == toStringHex(witnessPubKeyHash)
        p2shp2wpkh == p2shp2wpkhOf(witnessPubKeyHash, network)
        f == Enter("createPayToScriptHash_PayToWitnessPublicKeyHash",
                   [NoArgs EXCEPT !.networkInput = networkInput])
    IN  Finish([f EXCEPT !.keyPair = keyPair, !.witnessPubKeyHash = witnessPubKeyHash],
               Wallet({"p2shp2wpkh", "witnessPubKeyHashHex", "wif"},
                      NoAddr, NoAddr, p2shp2wpkh, witnessPubKeyHashHex, wif))

createPayToScriptHash_PayToWitnessPublicKeyHash(c) ==
    /\ IsIdle(c)
    /\ \E networkInput \in NetInputs :
         calls' = [calls EXCEPT ![c] =
             createPayToScriptHash_PayToWitnessPublicKeyHash_call(networkInput)]
    /\ entropy' \in 1..MaxKey
    /\ UNCHANGED memo

\* Lines 135-136: await createPayToScriptHash_PayToWitnessPublicKeyHash(networkInput).
createSegwitWallet(c) ==
    /\ IsIdle(c)
    /\ \E networkInput \in NetInputs :
         calls' = [calls EXCEPT ![c] =
             [createPayToScriptHash_PayToWitnessPublicKeyHash_call(networkInput) EXCEPT
                 !.alias = "createSegwitWallet"]]
    /\ entropy' \in 1..MaxKey
    /\ UNCHANGED memo

\* The record of all three addresses of one key pair (index.js 150-174, 189-213).
AllWallets(wif, keyPair, network) ==
    LET p2pkh == getAddress(keyPair)
        witnessPubKeyHash == witnessPubKeyHashOf(keyPair)
        p2wpkh == p2wpkhOf(witnessPubKeyHash, network)
        witnessPubKeyHashHex == toStringHex(witnessPubKeyHash)
        p2shp2wpkh == p2shp2wpkhOf(witnessPubKeyHash, network)
    IN  Wallet({"wif", "p2pkh", "p2wpkh", "p2shp2wpkh", "witnessPubKeyHashHex"},
               p2pkh, p2wpkh, p2shp2wpkh, witnessPubKeyHashHex, wif)

createWalletsOfTwoKeys(c) ==
    /\ IsIdle(c)
    /\ \E networkInput \in NetInputs :
         LET network == getSelectedNetwork(networkInput) IN
           LET wif == toWIF(makeRandom(network))
               keyPair == ECPair(RandKey((entropy % MaxKey) + 1), network)
               f == Enter("createWallets", [NoArgs EXCEPT !.networkInput = networkInput])
           IN  calls' = [calls EXCEPT ![c] =
                   Finish([f EXCEPT !.keyPair = keyPair,
                                    !.witnessPubKeyHash = witnessPubKeyHashOf(keyPair)],
                          AllWallets(wif, keyPair, network))]
    /\ entropy' \in 1..MaxKey
    /\ UNCHANGED memo

createWallets(c) ==
    /\ IsIdle(c)
    /\ \E networkInput \in NetInputs :
         LET network == getSelectedNetwork(networkInput) IN
           LET wif == toWIF(makeRandom(network))
               keyPair == fromWIF(wif, network)
               f == Enter("createWallets", [NoArgs EXCEPT !.networkInput = networkInput])
           IN  calls' = [calls EXCEPT ![c] =
                   Finish([f EXCEPT !.keyPair = keyPair,
                                    !.witnessPubKeyHash = witnessPubKeyHashOf(keyPair)],
                          AllWallets(wif, keyPair, network))]
    /\ entropy' \in 1..MaxKey
    /\ UNCHANGED memo

createWalletsFromWIF(c) ==
    /\ IsIdle(c)
    /\ \E wif \in WifInputs, networkInput \in NetInputs :
         LET network == getSelectedNetwork(networkInput)
             keyPair == fromWIF(wif, network)
             f == Enter("createWalletsFromWIF",
                        [NoArgs EXCEPT !.wif = wif, !.networkInput = networkInput])
         IN  calls' = [calls EXCEPT ![c] =
                 IF fromWIF_throws(wif, network)
                 THEN Fail(f, fromWIF_error(wif, network))
                 ELSE Finish([f EXCEPT !.keyPair = keyPair,
                                       !.witnessPubKeyHash = witnessPubKeyHashOf(keyPair)],
                             AllWallets(wif, keyPair, network))]
    /\ UNCHANGED <<entropy, memo>>

(***************************************************************************)
(* isValidAddress (index.js 222-231).                                      *)
(***************************************************************************)
\* What the body of isValidAddress does: the value its promise resolves to,
\* and the line it writes to console.error when toOutputScript throws.
isValidAddress_valueAnyNetwork(address, networkInput) ==
    ~fromBase58Check_throws(address) \/ ~fromBech32_throws(address)

isValidAddress_value(address, networkInput) ==
    ~toOutputScript_throws(address, getSelectedNetwork(networkInput))

isValidAddress_logs(address, networkInput) ==
    IF isValidAddress_value(address, networkInput) THEN <<>>
    ELSE <<LogEntry("error", "has no matching Script", NoArgs)>>

isValidAddress(c) ==
    /\ IsIdle(c)
    /\ \E address \in AddrInputs, networkInput \in NetInputs :
         LET f == Enter("isValidAddress",
                        [NoArgs EXCEPT !.address = address, !.networkInput = networkInput])
         IN  calls' = [calls EXCEPT ![c] =
                 Finish([f EXCEPT !.logged = isValidAddress_logs(address, networkInput)],
                        [NoRet EXCEPT !.kind = "ok", !.keys = {"bool"},
                            !.bool = isValidAddress_value(address, networkInput)])]
    /\ UNCHANGED <<entropy, memo>>

(***************************************************************************)
(* createHierarchicalDeterministic (index.js 243-296).                     *)
(***************************************************************************)
\* A seed of n bytes 00 01 02 ..., in hexadecimal digits.
SeedOfBytes(n) == [i \in 1..(2 * n) |-> IF i % 2 = 1 THEN 0 ELSE ((i \div 2) - 1) % 16]

\* The argument tuples of the HD functions.  Seeds: the test vector
\* 000102...0f, a seed of 64 bytes, and seeds one byte short of and one byte
\* over the accepted lengths.  Indices: 0, 1, 2^31 - 1, 2^31, 2^32 and -1,
\* and a missing argument.
HDArgs ==
    LET SeedInputs == {SeedOfBytes(16), SeedOfBytes(64), SeedOfBytes(15), SeedOfBytes(65)}
        PurposeInputs ==
            {Undef, Num(0, 44), Num(0, 49), Num(0, 84), Num(0, 0), Num(0, 45), Str(0, 84)}
        AccountInputs == {Undef, Num(32767, 65535), Num(32768, 0)}
        ReceivingOrChangeInputs ==
            {Num(0, 0), Num(32767, 65535), Num(32768, 0), Num(65536, 0), Num(-1, 65535)}
        IndexInputs == {Undef, Num(0, 1), Num(32768, 0)}
    IN  {[NoArgs EXCEPT !.seed = seed, !.purpose = purpose, !.account = account,
             !.receivingOrChange = receivingOrChange, !.index = index,
             !.networkInput = networkInput] :
            seed \in SeedInputs, purpose \in PurposeInputs, account \in AccountInputs,
            receivingOrChange \in ReceivingOrChangeInputs, index \in IndexInputs,
            networkInput \in NetInputs}

\* The parameters after their defaults (index.js 245-248).
HDPurpose(args) == Default(args.purpose, Num(0, 44))

HDAccount(args) == Default(args.account, Num(0, 0))

HDReceivingOrChange(args) == Default(args.receivingOrChange, Num(0, 0))

HDIndex(args) == Default(args.index, Num(0, 0))

netPathOfAnyTestNetwork(networkInput) ==
    IF networkInput \in {"testnet", "regtest"} THEN 1 ELSE 0

netPath(networkInput) == IF networkInput = "testnet" THEN 1 ELSE 0

\* m/purpose'/netPath'/account'/receivingOrChange/index (index.js 255).
HDPath(args) ==
    <<Segment(HDPurpose(args), TRUE), Segment(Num(0, netPath(args.networkInput)), TRUE),
      Segment(HDAccount(args), TRUE), Segment(HDReceivingOrChange(args), FALSE),
      Segment(HDIndex(args), FALSE)>>

\* Lines 251-253: network, netPath and the master node of the seed.
createHierarchicalDeterministic(c, A) ==
    /\ IsIdle(c)
    /\ \E args \in A :
         LET f == Enter("createHierarchicalDeterministic", args) IN
         calls' = [calls EXCEPT ![c] =
             IF fromSeedHex_throws(args.seed)
             THEN Fail(f, "Seed should be at least 128 bits and at most 512 bits")
             ELSE [f EXCEPT !.pc = "derivePath",
                            !.keyPair = ECPair(fromSeedHex(args.seed), f.network)]]
    /\ UNCHANGED <<entropy, memo>>

\* createHDWallet (index.js 308-323) applies the same defaults and passes
\* its six arguments on; the frame holds the arguments as passed on.
createHDWallet(c, A) ==
    /\ IsIdle(c)
    /\ \E given \in A :
         LET args == [given EXCEPT !.purpose = Default(@, Num(0, 44)),
                                   !.account = Default(@, Num(0, 0)),
                                   !.receivingOrChange = Default(@, Num(0, 0)),
                                   !.index = Default(@, Num(0, 0))]
             f == [Enter("createHDWallet", args) EXCEPT !.alias = "createHDWallet",
                                                        !.given = given]
         IN  calls' = [calls EXCEPT ![c] =
                 IF fromSeedHex_throws(args.seed)
                 THEN Fail(f, "Seed should be at least 128 bits and at most 512 bits")
                 ELSE [f EXCEPT !.pc = "derivePath",
                                !.keyPair = ECPair(fromSeedHex(args.seed), f.network)]]
    /\ UNCHANGED <<entropy, memo>>

IsHD(f) == f.op \in {"createHierarchicalDeterministic", "createHDWallet"}

\* Lines 255-261: the path, the derived key pair and its witness program.
HD_derivePath(c) ==
    /\ IsHD(calls[c])
    /\ calls[c].pc = "derivePath"
    /\ LET f == calls[c]
           path == HDPath(f.args)
           keyPair == ECPair(derivePath(f.keyPair.d, path), f.network)
       IN  calls' = [calls EXCEPT ![c] =
               IF derivePath_throws(path)
               THEN Fail(f, "Expected BIP32Path or UInt31 or UInt32")
               ELSE [f EXCEPT !.pc = "switch", !.keyPair = keyPair,
                              !.witnessPubKeyHash = witnessPubKeyHashOf(keyPair)]]
    /\ UNCHANGED <<entropy, memo>>

HDBranchSwapped(purpose) ==
    IF purpose = Num(0, 84) THEN 49
    ELSE IF purpose = Num(0, 49) THEN 84
    ELSE 0

HDBranchLooseEquality(purpose) ==
    IF purpose.hi = 0 /\ purpose.lo = 84 THEN 84
    ELSE IF purpose.hi = 0 /\ purpose.lo = 49 THEN 49
    ELSE 0

\* The switch on purpose compares with ===: only the numbers 84 and 49 match.
HDBranch(purpose) ==
    IF purpose = Num(0, 84) THEN 84
    ELSE IF purpose = Num(0, 49) THEN 49
    ELSE 0

\* Lines 263-295.
HD_return(f) ==
    LET wif == toWIF(f.keyPair)
        branch == HDBranch(HDPurpose(f.args))
    IN  IF branch = 84
        THEN Wallet({"p2wpkh", "wif"}, NoAddr, p2wpkhOf(f.witnessPubKeyHash, f.network),
                    NoAddr, NoHex, wif)
        ELSE IF branch = 49
        THEN Wallet({"p2shp2wpkh", "wif", "witnessPubKeyHashHex"}, NoAddr, NoAddr,
                    p2shp2wpkhOf(f.witnessPubKeyHash, f.network),
                    toStringHex(f.witnessPubKeyHash), wif)
        ELSE Wallet({"p2pkh", "wif"}, getAddress(f.keyPair), NoAddr, NoAddr, NoHex, wif)

HD_switch(c) ==
    /\ IsHD(calls[c])
    /\ calls[c].pc = "switch"
    /\ calls' = [calls EXCEPT ![c] = Finish(calls[c], HD_return(calls[c]))]
    /\ UNCHANGED <<entropy, memo>>

(***************************************************************************)
(* spendFromP2PKH (index.js 371-422) and spendFromP2WPKH (480-540).        *)
(***************************************************************************)
\* A transaction id of 64 hexadecimal digits and one of 62.
TxIdOfBytes(n) == [i \in 1..(2 * n) |-> (i * 7) % 16]

\* The argument tuples of a spend.  A balance of -1 stands for a balance
\* that is not passed.
SpendArgs(balances) ==
    LET TxIdInputs == {TxIdOfBytes(32), TxIdOfBytes(31)}
        OutInputs == {0, 1}
        SpendAddrInputs ==
            {AddrP2PKH(1, NetBitcoin), AddrP2PKH(1, NetTestnet), AddrP2WPKH(2, NetTestnet),
             AddrP2SH(1, NetBitcoin), AddrBadChecksum, AddrJunk}
        ChangeAddrInputs ==
            {AddrP2WPKH(2, NetBitcoin), AddrP2PKH(1, NetTestnet), AddrBadChecksum}
        AmountInputs == {90000, -1}
        ChangeAmountInputs == {9000}
        SpendWifInputs ==
            {WifOf(1, NetBitcoin), WifOf(1, NetTestnet), WifOf(2, NetTestnet), WifBadChecksum}
        SpendNetInputs == {"undefined", "bitcoin", "testnet"}
    IN  {[NoArgs EXCEPT !.txId = txId, !.out = out, !.address = address, !.amount = amount,
             !.wif = wif, !.changeAddress = changeAddress, !.changeAmount = changeAmount,
             !.balance = balance, !.networkInput = networkInput] :
            txId \in TxIdInputs, out \in OutInputs, address \in SpendAddrInputs,
            amount \in AmountInputs, wif \in SpendWifInputs,
            changeAddress \in ChangeAddrInputs, changeAmount \in ChangeAmountInputs,
            balance \in balances, networkInput \in SpendNetInputs}

P2PKHArgs == SpendArgs({-1})

P2WPKHArgs == SpendArgs({100000, 1000000, -1})

\* What an expression evaluates to in the condition of an if: a call of an
\* async function gives a promise, and every object is truthy.
Promise(v) == [type |-> "promise", value |-> v]

Boolean(v) == [type |-> "boolean", value |-> v]

ToBoolean(x) == IF x.type = "boolean" THEN x.value ELSE TRUE

\* isValidAddress(address, networkInput), called without await.
isValidAddress_call(address, networkInput) ==
    Promise(isValidAddress_value(address, networkInput))

IsSpend(f) == f.op \in {"spendFromP2PKH", "spendFromP2WPKH"}

NextPcWithoutChange(op, pc) ==
    IF op = "spendFromP2PKH"
    THEN CASE pc = "addInput" -> "output"
           [] pc = "output" -> "fromWIF"
           [] pc = "change" -> "fromWIF"
           [] pc = "fromWIF" -> "sign"
           [] pc = "sign" -> "build"
           [] pc = "build" -> "toHex"
    ELSE CASE pc = "fromWIF" -> "addInput"
           [] pc = "addInput" -> "output"
           [] pc = "output" -> "sign"
           [] pc = "change" -> "sign"
           [] pc = "sign" -> "build"
           [] pc = "build" -> "toHex"

\* The order of the statements of each function.
NextPc(op, pc) ==
    IF op = "spendFromP2PKH"
    THEN CASE pc = "addInput" -> "output"
           [] pc = "output" -> "change"
           [] pc = "change" -> "fromWIF"
           [] pc = "fromWIF" -> "sign"
           [] pc = "sign" -> "build"
           [] pc = "build" -> "toHex"
    ELSE CASE pc = "fromWIF" -> "addInput"
           [] pc = "addInput" -> "output"
           [] pc = "output" -> "change"
           [] pc = "change" -> "sign"
           [] pc = "sign" -> "build"
           [] pc = "build" -> "toHex"

Step(f, name) == [f EXCEPT !.pc = NextPc(f.op, f.pc), !.trace = Append(@, name)]

\* Lines 381-394: the network, console.log of the arguments, the builder.
spendFromP2PKH_call(args) ==
    LET f == Enter("spendFromP2PKH", args) IN
    [f EXCEPT !.pc = "addInput", !.logged = <<LogEntry("log", "", args)>>,
              !.tb = TransactionBuilder(f.network)]

spendFromP2PKH(c, A) ==
    /\ IsIdle(c)
    /\ \E args \in A : calls' = [calls EXCEPT ![c] = spendFromP2PKH_call(args)]
    /\ UNCHANGED <<entropy, memo>>

spendFromLegacySwapped(c, A) ==
    /\ IsIdle(c)
    /\ \E given \in A :
         LET args == [NoArgs EXCEPT !.txId = given.txId, !.out = given.out,
                         !.address = given.changeAddress, !.amount = given.amount,
                         !.wif = given.wif, !.changeAddress = given.address,
                         !.changeAmount = given.changeAmount,
                         !.networkInput = given.networkInput]
         IN  calls' = [calls EXCEPT ![c] =
                 [spendFromP2PKH_call(args) EXCEPT !.alias = "spendFromLegacy",
                                                   !.given = given]]
    /\ UNCHANGED <<entropy, memo>>

\* Lines 441-460: await spendFromP2PKH with its eight parameters in order.
spendFromLegacy(c, A) ==
    /\ IsIdle(c)
    /\ \E given \in A :
         LET args == [NoArgs EXCEPT !.txId = given.txId, !.out = given.out,
                         !.address = given.address, !.amount = given.amount,
                         !.wif = given.wif, !.changeAddress = given.changeAddress,
                         !.changeAmount = given.changeAmount,
                         !.networkInput = given.networkInput]
         IN  calls' = [calls EXCEPT ![c] =
                 [spendFromP2PKH_call(args) EXCEPT !.alias = "spendFromLegacy",
                                                   !.given = given]]
    /\ UNCHANGED <<entropy, memo>>

spendFromP2WPKH_callRedacted(args) ==
    LET f == Enter("spendFromP2WPKH", args) IN
    [f EXCEPT !.pc = "fromWIF",
              !.logged = <<LogEntry("log", "", [args EXCEPT !.wif = NoWif])>>,
              !.tb = TransactionBuilder(f.network)]

\* Lines 491-505.
spendFromP2WPKH_call(args) ==
    LET f == Enter("spendFromP2WPKH", args) IN
    [f EXCEPT !.pc = "fromWIF", !.logged = <<LogEntry("log", "", args)>>,
              !.tb = TransactionBuilder(f.network)]

spendFromP2WPKH(c, A) ==
    /\ IsIdle(c)
    /\ \E args \in A : calls' = [calls EXCEPT ![c] = spendFromP2WPKH_call(args)]
    /\ UNCHANGED <<entropy, memo>>

\* Lines 560-581: await spendFromP2WPKH with its nine parameters in order.
spendFromBech32(c, A) ==
    /\ IsIdle(c)
    /\ \E given \in A :
         LET args == [NoArgs EXCEPT !.txId = given.txId, !.out = given.out,
                         !.address = given.address, !.amount = given.amount,
                         !.wif = given.wif, !.changeAddress = given.changeAddress,
                         !.changeAmount = given.changeAmount, !.balance = given.balance,
                         !.networkInput = given.networkInput]
         IN  calls' = [calls EXCEPT ![c] =
                 [spendFromP2WPKH_call(args) EXCEPT !.alias = "spendFromBech32",
                                                    !.given = given]]
    /\ UNCHANGED <<entropy, memo>>

\* Line 414; lines 509-513, which also compute the witness program of the key.
Spend_fromWIF(c) ==
    /\ IsSpend(calls[c])
    /\ calls[c].pc = "fromWIF"
    /\ LET f == calls[c]
           keyPair == fromWIF(f.args.wif, f.network)
       IN  calls' = [calls EXCEPT ![c] =
               IF fromWIF_throws(f.args.wif, f.network)
               THEN Fail(f, fromWIF_error(f.args.wif, f.network))
               ELSE [Step(f, "fromWIF") EXCEPT !.keyPair = keyPair,
                        !.witnessPubKeyHash =
                            IF f.op = "spendFromP2WPKH" THEN witnessPubKeyHashOf(keyPair)
                            ELSE NoScript]]
    /\ UNCHANGED <<entropy, memo>>

Spend_addInputOnSharedBuilder(c) ==
    /\ IsSpend(calls[c])
    /\ calls[c].pc = "addInput"
    /\ LET f == calls[c] IN
       calls' = [d \in Calls |->
           IF d = c
           THEN IF addInput_throws(f.tb, f.args.txId, f.args.out)
                THEN Fail(f, "addInput: Expected Hash256bit, UInt32")
                ELSE [Step(f, "addInput") EXCEPT
                         !.tb = addInput(f.tb, f.args.txId, f.args.out, f.witnessPubKeyHash)]
           ELSE IF IsSpend(calls[d]) /\ calls[d].pc # "done"
                THEN [calls[d] EXCEPT
                         !.tb = addInput(@, f.args.txId, f.args.out, f.witnessPubKeyHash)]
                ELSE calls[d]]
    /\ UNCHANGED <<entropy, memo>>

\* Line 397: addInput(txId, out); line 517: addInput(txId, out, null, witnessPubKeyHash).
Spend_addInput(c) ==
    /\ IsSpend(calls[c])
    /\ calls[c].pc = "addInput"
    /\ LET f == calls[c] IN
       calls' = [calls EXCEPT ![c] =
           IF addInput_throws(f.tb, f.args.txId, f.args.out)
           THEN Fail(f, "addInput: Expected Hash256bit, UInt32")
           ELSE [Step(f, "addInput") EXCEPT
                    !.tb = addInput(f.tb, f.args.txId, f.args.out, f.witnessPubKeyHash)]]
    /\ UNCHANGED <<entropy, memo>>

\* The guarded addOutput of lines 400-404 and 520-524 (message "invalid
\* address") and of lines 407-411 and 527-531 ("invalid change address").
GuardedOutput(f, address, value, name, message) ==
    LET called == [f EXCEPT !.logged = @ \o isValidAddress_logs(address, f.args.networkInput)]
    IN  IF ToBoolean(isValidAddress_call(address, f.args.networkInput))
        THEN IF addOutput_throws(f.tb, address, value)
             THEN Fail(called, "addOutput: has no matching Script or Expected Satoshi")
             ELSE [Step(called, name) EXCEPT !.tb = addOutput(f.tb, address, value)]
        ELSE Fail(called, message)

Spend_output(c) ==
    /\ IsSpend(calls[c])
    /\ calls[c].pc = "output"
    /\ calls' = [calls EXCEPT ![c] =
           GuardedOutput(calls[c], calls[c].args.address, calls[c].args.amount,
                         "addOutput", "invalid address")]
    /\ UNCHANGED <<entropy, memo>>

Spend_change(c) ==
    /\ IsSpend(calls[c])
    /\ calls[c].pc = "change"
    /\ calls' = [calls EXCEPT ![c] =
           GuardedOutput(calls[c], calls[c].args.changeAddress, calls[c].args.changeAmount,
                         "addChange", "invalid change address")]
    /\ UNCHANGED <<entropy, memo>>

WitnessValueOfAmount(f) == IF f.op = "spendFromP2WPKH" THEN f.args.amount ELSE -1

\* Line 415: sign(0, keypairSpend); line 534: sign(0, keyPair, null, null, balance).
WitnessValue(f) == IF f.op = "spendFromP2WPKH" THEN f.args.balance ELSE -1

Spend_sign(c) ==
    /\ IsSpend(calls[c])
    /\ calls[c].pc = "sign"
    /\ LET f == calls[c] IN
       calls' = [calls EXCEPT ![c] =
           IF sign_throws(f.tb, 0, f.keyPair, WitnessValue(f))
           THEN Fail(f, sign_error(f.tb, 0, f.keyPair, WitnessValue(f)))
           ELSE [Step(f, "sign") EXCEPT !.tb = sign(f.tb, 0, f.keyPair, WitnessValue(f))]]
    /\ UNCHANGED <<entropy, memo>>

\* Lines 418 and 537: build().
Spend_build(c) ==
    /\ IsSpend(calls[c])
    /\ calls[c].pc = "build"
    /\ LET f == calls[c] IN
       calls' = [calls EXCEPT ![c] =
           IF build_throws(f.tb)
           THEN Fail(f, build_error(f.tb))
           ELSE [Step(f, "build") EXCEPT !.tx = build(f.tb)]]
    /\ UNCHANGED <<entropy, memo>>

\* Lines 419-421 and 538-539: toHex() and the returned record.
Spend_toHex(c) ==
    /\ IsSpend(calls[c])
    /\ calls[c].pc = "toHex"
    /\ LET f == calls[c] IN
       calls' = [calls EXCEPT ![c] =
           Finish([f EXCEPT !.trace = Append(@, "toHex")],
                  [NoRet EXCEPT !.kind = "ok", !.keys = {"txHex"}, !.txHex = toHex(f.tx)])]
    /\ UNCHANGED <<entropy, memo>>

\* A few argument tuples of the HD functions and of the spends.
ConcHDArgs ==
    {[NoArgs EXCEPT !.seed = SeedOfBytes(16), !.purpose = purpose,
         !.receivingOrChange = receivingOrChange, !.networkInput = networkInput] :
        purpose \in {Undef, Num(0, 49)},
        receivingOrChange \in {Num(0, 0), Num(65536, 0)},
        networkInput \in {"bitcoin", "testnet"}}

ConcSpendArgs(balances) ==
    {[NoArgs EXCEPT !.txId = TxIdOfBytes(32), !.out = out, !.address = address,
         !.amount = 90000, !.wif = wif, !.changeAddress = AddrP2WPKH(2, NetBitcoin),
         !.changeAmount = 9000, !.balance = balance, !.networkInput = "bitcoin"] :
        out \in {0, 1},
        address \in {AddrP2PKH(1, NetBitcoin), AddrBadChecksum},
        wif \in {WifOf(1, NetBitcoin), WifOf(2, NetTestnet)},
        balance \in balances}

\* The caller has taken the result; the frame is free for the next call.
Release(c) ==
    /\ calls[c].pc = "done"
    /\ calls' = [calls EXCEPT ![c] = Idle]
    /\ UNCHANGED <<entropy, memo>>

NoMemo == [set |-> FALSE, args |-> NoArgs, ret |-> NoRet, entropy |-> 0]

\* The caller keeps the arguments and the result of a finished call of
\* createHierarchicalDeterministic or createHDWallet, to compare a later
\* call with.
HD_remember(c) ==
    /\ IsHD(calls[c])
    /\ calls[c].pc = "done"
    /\ memo' = [set |-> TRUE, args |-> calls[c].args, ret |-> calls[c].ret,
                entropy |-> entropy]
    /\ calls' = [calls EXCEPT ![c] = Idle]
    /\ UNCHANGED entropy

Init ==
    /\ calls = [c \in {1} |-> Idle]
    /\ entropy \in 1..MaxKey
    /\ memo = NoMemo

Next ==
    \/ \E c \in Calls : createPayToPublicKeyHashWallet(c)
    \/ \E c \in Calls : createPayToWitnessPublicKeyHash(c)
    \/ \E c \in Calls : createPayToScriptHash_PayToWitnessPublicKeyHash(c)
    \/ \E c \in Calls : createWallets(c)
    \/ \E c \in Calls : createWalletsFromWIF(c)
    \/ \E c \in Calls : isValidAddress(c)
    \/ \E c \in Calls : createHierarchicalDeterministic(c, HDArgs)
    \/ \E c \in Calls : createHDWallet(c, HDArgs)
    \/ \E c \in Calls : HD_derivePath(c)
    \/ \E c \in Calls : HD_switch(c)
    \/ \E c \in Calls : spendFromP2PKH(c, P2PKHArgs)
    \/ \E c \in Calls : spendFromP2WPKH(c, P2WPKHArgs)
    \/ \E c \in Calls : Spend_fromWIF(c)
    \/ \E c \in Calls : Spend_addInput(c)
    \/ \E c \in Calls : Spend_output(c)
    \/ \E c \in Calls : Spend_change(c)
    \/ \E c \in Calls : Spend_sign(c)
    \/ \E c \in Calls : Spend_build(c)
    \/ \E c \in Calls : Spend_toHex(c)
    \/ \E c \in Calls : createLegacyWallet(c)
    \/ \E c \in Calls : createBech32Wallet(c)
    \/ \E c \in Calls : createSegwitWallet(c)
    \/ \E c \in Calls : spendFromLegacy(c, ConcSpendArgs({-1}))
    \/ \E c \in Calls : spendFromBech32(c, ConcSpendArgs({100000, -1}))
    \/ \E c \in Calls : Release(c)

Spec == Init /\ [][Next]_vars

\* Calls of the HD functions, remembered and repeated, with the calls that
\* draw fresh randomness in between.
HDArgsSmall ==
    {[NoArgs EXCEPT !.seed = seed, !.purpose = purpose, !.account = Undef,
         !.receivingOrChange = receivingOrChange, !.index = index,
         !.networkInput = networkInput] :
        seed \in {SeedOfBytes(16), SeedOfBytes(15)},
        purpose \in {Num(0, 44), Num(0, 49), Num(0, 84)},
        receivingOrChange \in {Num(0, 0), Num(65536, 0)},
        index \in {Undef, Num(0, 1)},
        networkInput \in {"bitcoin", "testnet"}}

NextHD ==
    \/ \E c \in Calls : createPayToPublicKeyHashWallet(c)
    \/ \E c \in Calls : createPayToWitnessPublicKeyHash(c)
    \/ \E c \in Calls : createPayToScriptHash_PayToWitnessPublicKeyHash(c)
    \/ \E c \in Calls : createWallets(c)
    \/ \E c \in Calls : createHierarchicalDeterministic(c, HDArgsSmall)
    \/ \E c \in Calls : createHDWallet(c, HDArgsSmall)
    \/ \E c \in Calls : HD_derivePath(c)
    \/ \E c \in Calls : HD_switch(c)
    \/ \E c \in Calls : HD_remember(c)
    \/ \E c \in Calls : Release(c)

SpecHD == Init /\ [][NextHD]_vars

\* Two calls in progress at once: the steps of both interleave at their
\* await points.
InitConc ==
    /\ calls = [c \in {1, 2} |-> Idle]
    /\ entropy \in 1..MaxKey
    /\ memo = NoMemo

NextConc ==
    \/ \E c \in Calls : createWallets(c)
    \/ \E c \in Calls : createHierarchicalDeterministic(c, ConcHDArgs)
    \/ \E c \in Calls : HD_derivePath(c)
    \/ \E c \in Calls : HD_switch(c)
    \/ \E c \in Calls : spendFromP2PKH(c, ConcSpendArgs({-1}))
    \/ \E c \in Calls : spendFromP2WPKH(c, ConcSpendArgs({100000}))
    \/ \E c \in Calls : Spend_fromWIF(c)
    \/ \E c \in Calls : Spend_addInput(c)
    \/ \E c \in Calls : Spend_output(c)
    \/ \E c \in Calls : Spend_change(c)
    \/ \E c \in Calls : Spend_sign(c)
    \/ \E c \in Calls : Spend_build(c)
    \/ \E c \in Calls : Spend_toHex(c)
    \/ \E c \in Calls : Release(c)

SpecConc == InitConc /\ [][NextConc]_vars

(***************************************************************************)
(* Properties.                                                             *)
(***************************************************************************)
\* An address string that decodes under a network: right alphabet and
\* checksum, and a version byte or prefix of that network.
Decodes(a, network) ==
    /\ a.chk
    /\ \/ a.fmt = "base58" /\ a.len = 20 /\ a.ver \in {network.pubKeyHash, network.scriptHash}
       \/ a.fmt = "bech32" /\ a.hrp = network.bech32 /\ a.ver = 0 /\ a.len \in {20, 32}

SelectedNetwork(networkInput) == IF networkInput = "testnet" THEN NetTestnet ELSE NetBitcoin

OtherNetwork(network) == IF network = NetTestnet THEN NetBitcoin ELSE NetTestnet

Range(seq) == {seq[i] : i \in 1..Len(seq)}

\* C1: in spendFromP2PKH and spendFromP2WPKH, for every network input, a
\* destination or change address that does not decode under the selected
\* network makes the call end with an error; it never reaches toHex and
\* never returns a txHex.
C1_UndecodableOutputFails ==
    \A c \in Calls :
        LET f == calls[c]
            network == SelectedNetwork(f.args.networkInput)
        IN  (IsSpend(f) /\ (~Decodes(f.args.address, network)
                             \/ ~Decodes(f.args.changeAddress, network)))
            => /\ f.pc # "toHex"
               /\ f.ret.kind # "ok"
               /\ f.ret.txHex = NoTxHex
               /\ f.pc = "done" => f.ret.kind = "error"

\* A witness spend was given a decodable destination and an undecodable
\* change address, added its input and its destination output, and failed.
C1_Witness ==
    \E c \in Calls :
        LET f == calls[c]
            network == SelectedNetwork(f.args.networkInput)
        IN  /\ f.op = "spendFromP2WPKH"
            /\ f.pc = "done"
            /\ f.ret.kind = "error"
            /\ Decodes(f.args.address, network)
            /\ ~Decodes(f.args.changeAddress, network)
            /\ f.trace = <<"fromWIF", "addInput", "addOutput">>

\* C2: wherever a P2SH-P2WPKH address is returned, the script hash in it is
\* hash160 of the raw bytes of the P2WPKH witness program of the returned
\* key, not of the program's hexadecimal text.
C2_ScriptHashOfRawBytes ==
    \A c \in Calls :
        LET f == calls[c]
            program == witnessPubKeyHash_output_encode(
                           hash160(getPublicKeyBuffer(fromWIF(f.ret.wif, f.network))))
        IN  (f.ret.kind = "ok" /\ "p2shp2wpkh" \in f.ret.keys)
            => /\ f.ret.p2shp2wpkh.data = hash160(program)
               /\ f.ret.p2shp2wpkh.data # hash160(toStringHex(program))

\* The key pair the returned wif decodes to under the call's network.
KeyOfRet(f) == fromWIF(f.ret.wif, f.network)

\* C3: createHierarchicalDeterministic and createHDWallet return the record
\* the purpose selects: 44 gives exactly {p2pkh, wif}, 84 exactly {p2wpkh,
\* wif}, 49 exactly {p2shp2wpkh, wif, witnessPubKeyHashHex}; the wif is that
\* of the key derived from the seed, and the address is the address of that
\* type of the key the wif decodes to.
C3_PurposeSelectsType ==
    \A c \in Calls :
        LET f == calls[c]
            purpose == HDPurpose(f.args)
            pubKeyHash == hash160(getPublicKeyBuffer(KeyOfRet(f)))
            program == witnessPubKeyHash_output_encode(pubKeyHash)
        IN  (IsHD(f) /\ f.ret.kind = "ok")
            => /\ f.ret.wif.chk /\ f.ret.wif.version = f.network.wif
               /\ f.ret.wif.d.src = "hd" /\ f.ret.wif.d.seed = HexDecode(f.args.seed)
               /\ purpose = Num(0, 44) =>
                     /\ f.ret.keys = {"p2pkh", "wif"}
                     /\ f.ret.p2pkh = toBase58Check(pubKeyHash, f.network.pubKeyHash)
               /\ purpose = Num(0, 84) =>
                     /\ f.ret.keys = {"p2wpkh", "wif"}
                     /\ f.ret.p2wpkh = toBech32(pubKeyHash, 20, 0, f.network.bech32)
               /\ purpose = Num(0, 49) =>
                     /\ f.ret.keys = {"p2shp2wpkh", "wif", "witnessPubKeyHashHex"}
                     /\ f.ret.witnessPubKeyHashHex = toStringHex(program)
                     /\ f.ret.p2shp2wpkh = p2shp2wpkhOf(program, f.network)

\* A call with purpose 49 on testnet returned its record.
C3_Witness ==
    \E c \in Calls :
        /\ calls[c].op = "createHierarchicalDeterministic"
        /\ calls[c].pc = "done"
        /\ calls[c].ret.kind = "ok"
        /\ calls[c].args.purpose = Num(0, 49)
        /\ calls[c].args.networkInput = "testnet"
        /\ calls[c].ret.p2shp2wpkh.ver = 196

\* C4: isValidAddress never rejects, and resolves to true exactly when the
\* address decodes under the selected network; an address it accepts for
\* one network does not decode under the other.
C4_IsValidAddressIffDecodes ==
    \A c \in Calls :
        LET f == calls[c]
            network == SelectedNetwork(f.args.networkInput)
        IN  (f.op = "isValidAddress" /\ f.pc = "done")
            => /\ f.ret.kind = "ok"
               /\ f.ret.bool <=> Decodes(f.args.address, network)
               /\ f.ret.bool => ~Decodes(f.args.address, OtherNetwork(network))
               /\ Decodes(f.args.address, OtherNetwork(network)) => ~f.ret.bool

\* A well-formed testnet Bech32 address was rejected for bitcoin.
C4_Witness ==
    \E c \in Calls :
        /\ calls[c].op = "isValidAddress"
        /\ calls[c].pc = "done"
        /\ calls[c].args.address = AddrP2WPKH(2, NetTestnet)
        /\ calls[c].args.networkInput = "bitcoin"
        /\ calls[c].ret.bool = FALSE
        /\ Decodes(calls[c].args.address, NetTestnet)

\* C5: a transaction whose hex is returned by a spend has exactly one input,
\* the outpoint (txId, out), and exactly two outputs: the destination
\* address with amount at index 0, the change address with changeAmount at
\* index 1.
C5_OneInputTwoOutputs ==
    \A c \in Calls :
        LET f == calls[c]
            tx == f.ret.txHex.hex
        IN  (IsSpend(f) /\ f.ret.kind = "ok")
            => /\ Len(tx.ins) = 1
               /\ Reverse(tx.ins[1].hash) = HexDecode(f.args.txId)
               /\ tx.ins[1].index = f.args.out
               /\ Len(tx.outs) = 2
               /\ fromOutputScript(tx.outs[1].script, f.network) = f.args.address
               /\ tx.outs[1].value = f.args.amount
               /\ fromOutputScript(tx.outs[2].script, f.network) = f.args.changeAddress
               /\ tx.outs[2].value = f.args.changeAmount

\* A legacy spend returned the hex of its transaction.
C5_Witness ==
    \E c \in Calls :
        /\ calls[c].op = "spendFromP2PKH"
        /\ calls[c].pc = "done"
        /\ calls[c].ret.kind = "ok"
        /\ calls[c].ret.txHex # NoTxHex
        /\ calls[c].args.address # calls[c].args.changeAddress

\* The calls to the builder among the steps of a spend.
BuilderSteps(trace) == SelectSeq(trace, LAMBDA name : name # "fromWIF")

FirstFive(seq) == IF Len(seq) < 5 THEN seq ELSE SubSeq(seq, 1, 5)

\* An argument that makes one of the steps of a spend fail.
BadSpendArgs(f) ==
    LET network == SelectedNetwork(f.args.networkInput) IN
    \/ Len(f.args.txId) # 64
    \/ ~Decodes(f.args.address, network) \/ f.args.amount < 0
    \/ ~Decodes(f.args.changeAddress, network) \/ f.args.changeAmount < 0
    \/ ~f.args.wif.chk \/ f.args.wif.version # network.wif
    \/ f.op = "spendFromP2WPKH" /\ f.args.balance < 0

\* C6: in both spends toHex is reached only after addInput, the destination
\* addOutput, the change addOutput, sign of input 0 and build have all
\* succeeded, in that order, on a builder with one signed input and two
\* outputs; a call in which a step failed ends with an error and returns no
\* txHex.
C6_HexOnlyOfFinalized ==
    \A c \in Calls :
        LET f == calls[c]
            serialized == \/ f.pc = "toHex"
                          \/ f.ret.kind = "ok"
                          \/ f.ret.txHex # NoTxHex
                          \/ "toHex" \in Range(f.trace)
            finalized ==
                /\ FirstFive(BuilderSteps(f.trace))
                      = <<"addInput", "addOutput", "addChange", "sign", "build">>
                /\ "fromWIF" \in Range(f.trace)
                /\ Len(f.tb.ins) = 1
                /\ Len(f.tb.outs) = 2
                /\ f.tb.ins[1].signature # NoSig
                /\ f.tb.ins[1].signature.by
                      = getPublicKeyBuffer(fromWIF(f.args.wif, f.network))
                /\ f.tx = build(f.tb)
        IN  IsSpend(f) =>
              /\ (serialized => finalized)
              /\ (f.ret.txHex # NoTxHex => (f.ret.txHex = toHex(f.tx) /\ f.ret.kind = "ok"))
              /\ (f.pc = "done" => f.ret.kind \in {"ok", "error"})
              /\ (f.ret.kind = "error" =>
                    (/\ f.ret.txHex = NoTxHex
                     /\ f.ret.keys = {}
                     /\ "toHex" \notin Range(f.trace)))
              /\ ((f.pc = "done" /\ Len(BuilderSteps(f.trace)) < 6) => f.ret.kind = "error")
              /\ (BadSpendArgs(f) => (f.ret.kind # "ok" /\ f.pc # "toHex"))

\* A witness spend failed in build, after sign: it ended with the error and
\* without a txHex.
C6_Witness ==
    \E c \in Calls :
        /\ calls[c].op = "spendFromP2WPKH"
        /\ calls[c].pc = "done"
        /\ calls[c].ret.kind = "error"
        /\ calls[c].ret.txHex = NoTxHex
        /\ calls[c].trace = <<"fromWIF", "addInput", "addOutput", "addChange", "sign">>
        /\ calls[c].tb.ins[1].signature # NoSig

\* The ledger: the scriptPubKey of the previous output (txId, out).  Output
\* 0 of a transaction pays to the public key hash of key 1, output 1 to the
\* witness program of key 2.
PrevOutScriptPubKey(txId, out) ==
    IF out = 0
    THEN pubKeyHash_output_encode(hash160(getPublicKeyBuffer(KeyPairOf(1, NetBitcoin))))
    ELSE witnessPubKeyHash_output_encode(hash160(getPublicKeyBuffer(KeyPairOf(2, NetBitcoin))))

\* The script a key unlocks in the spend: the P2PKH output of the key in
\* the legacy spend, its P2WPKH witness program in the witness spend.
ExpectedScript(op, keyPair) ==
    IF op = "spendFromP2PKH"
    THEN pubKeyHash_output_encode(hash160(getPublicKeyBuffer(keyPair)))
    ELSE witnessPubKeyHash_output_encode(hash160(getPublicKeyBuffer(keyPair)))

\* C7: a spend, legacy or witness, whose wif decodes to a key that does not
\* correspond to the scriptPubKey of the previous output (txId, out) ends
\* with an error and returns no txHex.
C7_KeyMatchesPrevOut ==
    \A c \in Calls :
        LET f == calls[c] IN
        (/\ IsSpend(f)
         /\ f.pc = "done"
         /\ ~fromWIF_throws(f.args.wif, f.network)
         /\ ExpectedScript(f.op, fromWIF(f.args.wif, f.network))
                # PrevOutScriptPubKey(f.args.txId, f.args.out))
        => f.ret.kind = "error" /\ f.ret.txHex = NoTxHex

\* C8: a call of createHierarchicalDeterministic (or of createHDWallet,
\* which passes its arguments on) returns the record an earlier call with
\* the same seed, purpose, account, receivingOrChange, index and network
\* input returned, whatever calls ran in between.
C8_Deterministic ==
    \A c \in Calls :
        LET f == calls[c] IN
        (IsHD(f) /\ f.pc = "done" /\ memo.set /\ memo.args = f.args)
        => f.ret = memo.ret

\* A call returned the wallet that the remembered call with the same
\* arguments returned, after a wallet creation drew new randomness.
C8_Witness ==
    \E c \in Calls :
        /\ calls[c].op = "createHierarchicalDeterministic"
        /\ calls[c].pc = "done"
        /\ calls[c].ret.kind = "ok"
        /\ memo.set
        /\ memo.args = calls[c].args
        /\ memo.ret = calls[c].ret
        /\ memo.entropy # entropy

\* decoding with toOutputScript and encoding with fromOutputScript, under
\* one network, gives the address back.
RoundTrips(a, network) ==
    /\ ~toOutputScript_throws(a, network)
    /\ ~fromOutputScript_throws(toOutputScript(a, network), network)
    /\ fromOutputScript(toOutputScript(a, network), network) = a

\* C9: each of the three addresses createWalletsFromWIF returns round-trips
\* through toOutputScript and fromOutputScript under the call's network,
\* and isValidAddress resolves to true for it and that network.
C9_AddressesRoundTrip ==
    \A c \in Calls :
        LET f == calls[c] IN
        (f.op = "createWalletsFromWIF" /\ f.ret.kind = "ok")
        => /\ {"p2pkh", "p2wpkh", "p2shp2wpkh"} \subseteq f.ret.keys
           /\ \A a \in {f.ret.p2pkh, f.ret.p2wpkh, f.ret.p2shp2wpkh} :
                 /\ a # NoAddr
                 /\ RoundTrips(a, SelectedNetwork(f.args.networkInput))
                 /\ isValidAddress_value(a, f.args.networkInput)

\* createWalletsFromWIF returned the wallets of a testnet key.
C9_Witness ==
    \E c \in Calls :
        /\ calls[c].op = "createWalletsFromWIF"
        /\ calls[c].pc = "done"
        /\ calls[c].ret.kind = "ok"
        /\ calls[c].args.networkInput = "testnet"
        /\ calls[c].ret.p2wpkh.hrp = "tb"
        /\ calls[c].ret.p2shp2wpkh.ver = 196

\* A value inside 0..2^31-1.
InUInt31(v) == v.hi >= 0 /\ v.hi <= 32767 /\ v.lo >= 0 /\ v.lo <= 65535

\* C10: createHierarchicalDeterministic ends with an error exactly when the
\* seed does not decode to 16..64 bytes or account, receivingOrChange or
\* index lies outside 0..2^31-1, and returns a wallet otherwise.
C10_FailsOutsideUInt31 ==
    \A c \in Calls :
        LET f == calls[c]
            badSeed == Len(f.args.seed) < 32 \/ Len(f.args.seed) > 128
            badIndex == \/ ~InUInt31(HDAccount(f.args))
                        \/ ~InUInt31(HDReceivingOrChange(f.args))
                        \/ ~InUInt31(HDIndex(f.args))
        IN  (f.op = "createHierarchicalDeterministic" /\ f.pc = "done")
            => /\ ((badSeed \/ badIndex) => (f.ret.kind = "error" /\ f.ret.keys = {}))
               /\ (~(badSeed \/ badIndex) => (f.ret.kind = "ok" /\ "wif" \in f.ret.keys))

\* What a spend returns when its statements run one after the other with
\* no other call in between.
AloneOutputs(tb, args, rest(_)) ==
    IF ~ToBoolean(isValidAddress_call(args.address, args.networkInput))
    THEN Throw("invalid address")
    ELSE IF addOutput_throws(tb, args.address, args.amount)
    THEN Throw("addOutput: has no matching Script or Expected Satoshi")
    ELSE LET withOutput == addOutput(tb, args.address, args.amount) IN
         IF ~ToBoolean(isValidAddress_call(args.changeAddress, args.networkInput))
         THEN Throw("invalid change address")
         ELSE IF addOutput_throws(withOutput, args.changeAddress, args.changeAmount)
         THEN Throw("addOutput: has no matching Script or Expected Satoshi")
         ELSE rest(addOutput(withOutput, args.changeAddress, args.changeAmount))

AloneSignBuild(tb, keyPair, witnessValue) ==
    IF sign_throws(tb, 0, keyPair, witnessValue)
    THEN Throw(sign_error(tb, 0, keyPair, witnessValue))
    ELSE LET signed == sign(tb, 0, keyPair, witnessValue) IN
         IF build_throws(signed) THEN Throw(build_error(signed))
         ELSE [NoRet EXCEPT !.kind = "ok", !.keys = {"txHex"}, !.txHex = toHex(build(signed))]

AloneP2PKH(args) ==
    LET network == getSelectedNetwork(args.networkInput)
        tb == TransactionBuilder(network)
        signing(withOutputs) ==
            IF fromWIF_throws(args.wif, network) THEN Throw(fromWIF_error(args.wif, network))
            ELSE AloneSignBuild(withOutputs, fromWIF(args.wif, network), -1)
    IN  IF addInput_throws(tb, args.txId, args.out)
        THEN Throw("addInput: Expected Hash256bit, UInt32")
        ELSE AloneOutputs(addInput(tb, args.txId, args.out, NoScript), args, signing)

AloneP2WPKH(args) ==
    LET network == getSelectedNetwork(args.networkInput)
        tb == TransactionBuilder(network)
        keyPair == fromWIF(args.wif, network)
        signing(withOutputs) == AloneSignBuild(withOutputs, keyPair, args.balance)
    IN  IF fromWIF_throws(args.wif, network) THEN Throw(fromWIF_error(args.wif, network))
        ELSE IF addInput_throws(tb, args.txId, args.out)
        THEN Throw("addInput: Expected Hash256bit, UInt32")
        ELSE AloneOutputs(addInput(tb, args.txId, args.out, witnessPubKeyHashOf(keyPair)),
                          args, signing)

\* What createHierarchicalDeterministic returns when run alone.
AloneHD(args) ==
    LET network == getSelectedNetwork(args.networkInput)
        keyPair == ECPair(derivePath(fromSeedHex(args.seed), HDPath(args)), network)
    IN  IF fromSeedHex_throws(args.seed)
        THEN Throw("Seed should be at least 128 bits and at most 512 bits")
        ELSE IF derivePath_throws(HDPath(args))
        THEN Throw("Expected BIP32Path or UInt31 or UInt32")
        ELSE HD_return([Idle EXCEPT !.args = args, !.network = network, !.keyPair = keyPair,
                                    !.witnessPubKeyHash = witnessPubKeyHashOf(keyPair)])

\* C11: with two calls in progress at once, whatever the interleaving of
\* their steps, each call that ended returned what it returns when run
\* alone: a spend and an HD derivation the result its arguments determine,
\* createWallets the wallets of the one key it drew.
C11_ConcurrentCallsIndependent ==
    \A c \in Calls :
        LET f == calls[c] IN
        f.pc = "done" =>
            /\ f.op = "spendFromP2PKH" => f.ret = AloneP2PKH(f.args)
            /\ f.op = "spendFromP2WPKH" => f.ret = AloneP2WPKH(f.args)
            /\ f.op = "createHierarchicalDeterministic" => f.ret = AloneHD(f.args)
            /\ f.op = "createWallets" =>
                  f.ret = AllWallets(f.ret.wif, fromWIF(f.ret.wif, f.network), f.network)

\* A witness spend and a legacy spend of the same output, in progress at
\* the same time, both returned their transaction.
C11_Witness ==
    /\ Calls = {1, 2}
    /\ calls[1].op = "spendFromP2WPKH" /\ calls[1].pc = "done" /\ calls[1].ret.kind = "ok"
    /\ calls[2].op = "spendFromP2PKH" /\ calls[2].pc = "done" /\ calls[2].ret.kind = "ok"
    /\ calls[1].args.txId = calls[2].args.txId
    /\ calls[1].args.out = calls[2].args.out

C13_GuardThrowsOnFalse ==
    \A c \in Calls :
        LET f == calls[c]
            reachedOutput == "addInput" \in Range(f.trace)
            reachedChange == "addOutput" \in Range(f.trace)
        IN  (IsSpend(f) /\ f.pc = "done") =>
            /\ (reachedOutput /\ ~isValidAddress_value(f.args.address, f.args.networkInput))
               => (f.ret = Throw("invalid address") /\ Len(f.tb.outs) = 0)
            /\ (reachedChange
                    /\ ~isValidAddress_value(f.args.changeAddress, f.args.networkInput))
               => (f.ret = Throw("invalid change address") /\ Len(f.tb.outs) = 1)

C15_WitnessInputOfSigningKey ==
    \A c \in Calls :
        LET f == calls[c]
            input == f.tb.ins[1]
            pub == getPublicKeyBuffer(fromWIF(f.args.wif, f.network))
            signed == "sign" \in Range(f.trace)
        IN  (IsSpend(f) /\ Len(f.tb.ins) >= 1) =>
            /\ Len(f.tb.ins) = 1
            /\ f.op = "spendFromP2WPKH" =>
                  /\ input.prevOutScript = Script(<<OP_0, 20>>, hash160(pub), <<>>)
                  /\ input.prevOutType = "witnesspubkeyhash"
                  /\ signed <=> input.signature # NoSig
                  /\ signed => /\ input.signature.by = pub
                               /\ input.signature.algo = "witnessV0"
                               /\ input.signature.signScript.data = hash160(pub)
                               /\ input.signature.value = f.args.balance
                               /\ input.value = f.args.balance
                               /\ f.args.balance >= 0
            /\ f.op = "spendFromP2PKH" =>
                  /\ input.prevOutType # "witnesspubkeyhash"
                  /\ input.signature.algo # "witnessV0"
                  /\ ~signed => (input.prevOutScript = NoScript /\ input.prevOutType = "")
                  /\ signed => input.signature.by = pub

\* A witness spend returned a transaction whose input commits to the balance.
C15_Witness ==
    \E c \in Calls :
        /\ calls[c].op = "spendFromP2WPKH"
        /\ calls[c].ret.kind = "ok"
        /\ calls[c].args.balance = 100000
        /\ calls[c].args.amount = 90000
        /\ calls[c].ret.txHex.hex.ins[1].witness.value = 100000
        /\ calls[c].tb.ins[1].prevOutType = "witnesspubkeyhash"

\* C16: a call through an alias returns what the function it wraps returns
\* for the arguments the caller gave, or fails with the same error: the
\* spend aliases and createHDWallet (defaults included) the result that
\* spendFromP2PKH, spendFromP2WPKH and createHierarchicalDeterministic give
\* for those arguments, the wallet aliases the record of the wrapped creator
\* for the key that was generated.
C16_AliasesEquivalent ==
    \A c \in Calls :
        LET f == calls[c]
            keyPair == fromWIF(f.ret.wif, f.network)
            program == witnessPubKeyHashOf(keyPair)
        IN  f.pc = "done" =>
            /\ f.alias = "spendFromLegacy" => f.ret = AloneP2PKH(f.given)
            /\ (f.alias = "" /\ f.op = "spendFromP2PKH") => f.ret = AloneP2PKH(f.given)
            /\ f.alias = "spendFromBech32" => f.ret = AloneP2WPKH(f.given)
            /\ (f.alias = "" /\ f.op = "spendFromP2WPKH") => f.ret = AloneP2WPKH(f.given)
            /\ f.alias = "createHDWallet" => f.ret = AloneHD(f.given)
            /\ f.op = "createHierarchicalDeterministic" => f.ret = AloneHD(f.given)
            /\ (f.alias = "createLegacyWallet" \/ f.op = "createPayToPublicKeyHashWallet")
               => f.ret = Wallet({"p2pkh", "wif"}, getAddress(keyPair), NoAddr, NoAddr,
                                 NoHex, f.ret.wif)
            /\ (f.alias = "createBech32Wallet" \/ f.op = "createPayToWitnessPublicKeyHash")
               => f.ret = Wallet({"p2wpkh", "wif"}, NoAddr, p2wpkhOf(program, f.network),
                                 NoAddr, NoHex, f.ret.wif)
            /\ (f.alias = "createSegwitWallet"
                    \/ f.op = "createPayToScriptHash_PayToWitnessPublicKeyHash")
               => f.ret = Wallet({"p2shp2wpkh", "witnessPubKeyHashHex", "wif"}, NoAddr, NoAddr,
                                 p2shp2wpkhOf(program, f.network), toStringHex(program),
                                 f.ret.wif)
            /\ f.alias \in {"", "createLegacyWallet", "createBech32Wallet",
                            "createSegwitWallet", "createHDWallet", "spendFromLegacy",
                            "spendFromBech32"}

\* spendFromLegacy returned the transaction of its arguments, the
\* destination and the change address being different.
C16_Witness ==
    \E c \in Calls :
        /\ calls[c].alias = "spendFromLegacy"
        /\ calls[c].op = "spendFromP2PKH"
        /\ calls[c].pc = "done"
        /\ calls[c].ret.kind = "ok"
        /\ calls[c].given.address # calls[c].given.changeAddress
        /\ calls[c].ret.txHex.hex.outs[1].script = toOutputScript(calls[c].given.address, NetBitcoin)

\* What createWalletsFromWIF(wif, networkInput) returns.
WalletsFromWIF(wif, networkInput) ==
    LET network == SelectedNetwork(networkInput) IN
    IF fromWIF_throws(wif, network) THEN Throw(fromWIF_error(wif, network))
    ELSE AllWallets(wif, fromWIF(wif, network), network)

\* C17: the record createWallets returns is the record createWalletsFromWIF
\* returns for the record's wif and the same network input;
\* createWalletsFromWIF returns the wif it was given; the address a
\* single-type creator returns is the field of that type of the record
\* createWalletsFromWIF returns for the creator's wif.
C17_WalletOfOneKey ==
    \A c \in Calls :
        LET f == calls[c]
            fromWif == WalletsFromWIF(f.ret.wif, f.args.networkInput)
        IN  (f.pc = "done" /\ f.ret.kind = "ok") =>
            /\ f.op = "createWalletsFromWIF" =>
                  /\ f.ret = WalletsFromWIF(f.args.wif, f.args.networkInput)
                  /\ f.ret.wif = f.args.wif
            /\ f.op = "createWallets" => f.ret = fromWif
            /\ f.op = "createPayToPublicKeyHashWallet" =>
                  (fromWif.kind = "ok" /\ f.ret.p2pkh = fromWif.p2pkh)
            /\ f.op = "createPayToWitnessPublicKeyHash" =>
                  (fromWif.kind = "ok" /\ f.ret.p2wpkh = fromWif.p2wpkh)
            /\ f.op = "createPayToScriptHash_PayToWitnessPublicKeyHash" =>
                  /\ fromWif.kind = "ok"
                  /\ f.ret.p2shp2wpkh = fromWif.p2shp2wpkh
                  /\ f.ret.witnessPubKeyHashHex = fromWif.witnessPubKeyHashHex

\* createWallets returned the testnet wallets of the second key.
C17_Witness ==
    \E c \in Calls :
        /\ calls[c].op = "createWallets"
        /\ calls[c].pc = "done"
        /\ calls[c].ret.kind = "ok"
        /\ calls[c].args.networkInput = "testnet"
        /\ calls[c].ret.wif = WifOf(2, NetTestnet)
        /\ calls[c].ret.p2pkh = AddrP2PKH(2, NetTestnet)

WifOfOtherNetwork(f) ==
    /\ f.args.wif.chk
    /\ ValidScalar(f.args.wif.d)
    /\ f.args.wif.version = OtherNetwork(f.network).wif

\* C19: a WIF of the network other than the selected one is rejected:
\* createWalletsFromWIF fails and returns no address; a spend function never
\* builds or returns a transaction; spendFromP2WPKH fails on the WIF with an
\* empty builder, spendFromP2PKH fails on it with one input and two outputs
\* in the builder, unless one of these three steps failed before.
C19_ForeignWifRejected ==
    \A c \in Calls :
        LET f == calls[c]
            rejected == f.ret.kind = "error" /\ f.ret.err = "Invalid network version"
        IN  /\ (f.op = "createWalletsFromWIF" /\ f.pc = "done" /\ WifOfOtherNetwork(f)) =>
                  (rejected /\ f.ret = Throw("Invalid network version") /\ f.ret.keys = {})
            /\ (IsSpend(f) /\ WifOfOtherNetwork(f)) =>
                  /\ f.pc \notin {"sign", "build", "toHex"}
                  /\ f.keyPair = NoPair /\ f.tx = NoTx
                  /\ f.ret.txHex = NoTxHex
                  /\ f.pc = "done" => f.ret.kind = "error"
                  /\ (f.op = "spendFromP2WPKH" /\ f.pc = "done") =>
                        (rejected /\ f.trace = <<>> /\ f.tb.ins = <<>> /\ f.tb.outs = <<>>)
                  /\ (f.op = "spendFromP2PKH" /\ f.pc = "done") =>
                        (rejected <=> f.trace = <<"addInput", "addOutput", "addChange">>)
                  /\ (f.op = "spendFromP2PKH" /\ rejected) =>
                        (Len(f.tb.ins) = 1 /\ Len(f.tb.outs) = 2)

\* spendFromP2PKH on testnet with a mainnet WIF, stopped at fromWIF.
C19_Witness ==
    \E c \in Calls :
        /\ calls[c].op = "spendFromP2PKH"
        /\ calls[c].args.networkInput = "testnet"
        /\ calls[c].args.wif = WifOf(1, NetBitcoin)
        /\ calls[c].ret = Throw("Invalid network version")
        /\ Len(calls[c].tb.ins) = 1
        /\ Len(calls[c].tb.outs) = 2

\* C20: every call of spendFromP2PKH and spendFromP2WPKH, made by its own
\* name or by its alias, has its argument record with the wif as the first
\* line of its log, from its first step on and whether it later fails or
\* succeeds; no other line of its log, and no line of the log of any other
\* operation, holds a wif.
C20_SpendLogsItsWif ==
    \A c \in Calls :
        LET f == calls[c]
        IN  /\ IsSpend(f) =>
                  /\ Len(f.logged) >= 1
                  /\ f.logged[1] = LogEntry("log", "", f.args)
                  /\ f.logged[1].args.wif = f.given.wif
                  /\ f.given.wif # NoWif
                  /\ \A i \in 2..Len(f.logged) : f.logged[i].args.wif = NoWif
            /\ ~IsSpend(f) =>
                  \A i \in 1..Len(f.logged) : f.logged[i].args.wif = NoWif

\* A spendFromP2WPKH call that failed on an address, its wif in the log.
C20_Witness ==
    \E c \in Calls :
        /\ calls[c].op = "spendFromP2WPKH"
        /\ calls[c].pc = "done"
        /\ calls[c].ret.kind = "error"
        /\ calls[c].args.wif = WifOf(1, NetTestnet)
        /\ Len(calls[c].logged) = 2
        /\ calls[c].logged[1].level = "log"
        /\ calls[c].logged[1].args.wif = WifOf(1, NetTestnet)
        /\ calls[c].logged[2].level = "error"

====
